---- MODULE Spec2Model ----
(***************************************************************************)
(* Model of the OAuth 2.0 identity provider's Authenticate handler         *)
(* (package oauth, src/pkg/messaging/email_template_body.go lines 100-456).*)
(*                                                                         *)
(* Every inbound HTTP request runs Authenticate on its own goroutine; the  *)
(* goroutines share the provider b: its configuration, the backing array   *)
(* of b.config.Scopes and the flow state store b.state.  A call is split   *)
(* into steps at its accesses to shared data and at its outbound requests, *)
(* so that calls of different goroutines interleave there.                 *)
(*                                                                         *)
(* url.Values (the inbound query, the redirect query) is a map from the    *)
(* names of the parameters that are present to their first value.  Strings *)
(* the code splits or joins are sequences of one-character strings.        *)
(***************************************************************************)
EXTENDS Integers, Sequences, FiniteSets, TLC

VARIABLES
    config,       \* b.config and the b.disable* / b.enable* flags
    scopesArray,  \* the backing array of the slice b.config.Scopes
    store,        \* b.state: live flow states, state -> [nonce, code]
    expired,      \* states the store's TTL sweep has removed
    nextUUID,     \* the next value uuid.New() returns
    remaining,    \* Authenticate calls that can still start
    call          \* per goroutine: the Authenticate call it is running

vars == <<config, scopesArray, store, expired, nextUUID, remaining, call>>

-----------------------------------------------------------------------------
(* Bounds *)

NTasks == 2        \* goroutines serving requests concurrently
MaxCalls == 3      \* Authenticate calls in one behaviour
MaxFlowCalls == 2  \* Authenticate calls in one behaviour of the flows
MaxStates == 2     \* states uuid.New() can mint in one behaviour
MaxSpare == 1      \* spare capacity of b.config.Scopes (cap - len)

Tasks == 1..NTasks
\* state values an inbound request can carry: 0 is a value never minted
StateValues == 0..MaxStates

(* Program constants: net/http status codes *)
StatusBadRequest == 400
StatusOK == 200
StatusFound == 302

-----------------------------------------------------------------------------
(* Strings *)

RECURSIVE SplitFrom(_, _, _)
\* strings.Split(s, sep) for a one-character sep: cur is the token being read
SplitFrom(s, sep, cur) ==
    IF s = <<>> THEN <<cur>>
    ELSE IF Head(s) = sep THEN <<cur>> \o SplitFrom(Tail(s), sep, <<>>)
    ELSE SplitFrom(Tail(s), sep, Append(cur, Head(s)))

Split(s, sep) == SplitFrom(s, sep, <<>>)

RECURSIVE Join(_, _)
\* strings.Join(elems, sep)
Join(elems, sep) ==
    IF elems = <<>> THEN <<>>
    ELSE IF Len(elems) = 1 THEN elems[1]
    ELSE elems[1] \o <<sep>> \o Join(Tail(elems), sep)

-----------------------------------------------------------------------------
(* Maps with string keys: url.Values, map[string]interface{} *)

EmptyMap == <<>>
Has(m, k) == k \in DOMAIN m
\* the maps that hold k with a value of V, or do not hold k
Optional(k, V) == {EmptyMap} \cup {k :> v : v \in V}


-----------------------------------------------------------------------------
(* Inbound requests: r.Upstream.Request.URL.Query() *)

\* values of additional_scopes: "", "x" and "y z"
AdditionalScopesValues == {<<>>, <<"x">>, <<"y", " ", "z">>}

\* the parameters the callback branches read (lines 108-127, 145)
CallbackParams ==
    {a @@ i @@ c @@ s :
        a \in Optional("access_token", {"A"}),
        i \in Optional("id_token", {"J"}),
        c \in Optional("code", {"abc"}),
        s \in Optional("state", StateValues)}

ErrorParams ==
    {e @@ d : e \in {"error" :> "access_denied"},
              d \in Optional("error_description", {"user cancelled"})}

\* the parameters only the redirect branch reads (lines 128-135)
RedirectParams ==
    {h @@ x : h \in Optional("login_hint", {"u1"}),
              x \in Optional("additional_scopes", AdditionalScopesValues)}

\* Every combination of the parameters a branch reads; login_hint and
\* additional_scopes, which only the redirect branch reads, vary on the
\* requests that reach it.
Requests ==
    {e @@ c : e \in ErrorParams, c \in CallbackParams}
    \cup {c \in CallbackParams :
            Has(c, "state") \/ Has(c, "code") \/ Has(c, "access_token")}
    \cup {i @@ x : i \in Optional("id_token", {"J"}), x \in RedirectParams}

\* The requests of the flows: a callback with the code, a callback with the
\* tokens, a callback with neither, an error, and requests that start a flow
FlowRequests ==
    {("code" :> "abc") @@ ("state" :> s) : s \in StateValues}
    \cup {("access_token" :> "A") @@ ("id_token" :> "J") @@ s :
            s \in Optional("state", StateValues)}
    \cup {("state" :> 1), ("error" :> "access_denied")}
    \cup Optional("additional_scopes", {<<"x">>})

\* reqParams[k][0], and the zero value the code's variable keeps otherwise
ParamOr(p, k, zero) == IF Has(p, k) THEN p[k] ELSE zero

accessTokenExists(p) == Has(p, "access_token")
idTokenExists(p) == Has(p, "id_token")
codeExists(p) == Has(p, "code")
stateExists(p) == Has(p, "state")
errorExists(p) == Has(p, "error")
loginHintExists(p) == Has(p, "login_hint")
additionalScopesExists(p) == Has(p, "additional_scopes")

\* reqParamsState: 0 stands for the empty string as for any state never minted
reqParamsState(p) == ParamOr(p, "state", 0)

\* Branch with the code and state looked at before the error
Branch_CodeBeforeError(p) ==
    IF stateExists(p) \/ errorExists(p) \/ codeExists(p) \/ accessTokenExists(p)
    THEN IF codeExists(p) /\ stateExists(p) THEN "code"
         ELSE IF errorExists(p) THEN "error"
         ELSE IF idTokenExists(p) /\ accessTokenExists(p) THEN "implicit"
         ELSE "unmatched"
    ELSE "redirect"

\* Branch with the tokens' branch taken for an access_token alone
Branch_AccessTokenAlone(p) ==
    IF stateExists(p) \/ errorExists(p) \/ codeExists(p) \/ accessTokenExists(p)
    THEN IF errorExists(p) THEN "error"
         ELSE IF codeExists(p) /\ stateExists(p) THEN "code"
         ELSE IF accessTokenExists(p) THEN "implicit"
         ELSE "unmatched"
    ELSE "redirect"

\* The branch Authenticate takes (lines 137, 144, 150-151, 239, 265, 267)
Branch(p) ==
    IF stateExists(p) \/ errorExists(p) \/ codeExists(p) \/ accessTokenExists(p)
    THEN IF errorExists(p) THEN "error"
         ELSE IF codeExists(p) /\ stateExists(p) THEN "code"
         ELSE IF idTokenExists(p) /\ accessTokenExists(p) THEN "implicit"
         ELSE "unmatched"
    ELSE "redirect"

\* The requests that start a flow
RedirectRequests == {p \in Requests : Branch(p) = "redirect"}

-----------------------------------------------------------------------------
(* Configuration *)

Drivers == {"generic", "google", "github", "gitlab", "facebook", "discord", "patreon"}
\* one driver for each pair of branches the switches of lines 169 and 192 take
FlowDrivers == {"generic", "github", "facebook"}
\* b.config.Scopes: two scopes, "o" and "e"
Scopes == << <<"o">>, <<"e">> >>
ResponseType == << <<"c">> >>
ClientID == "client"
ClientSecret == "secret"
\* b.requiredTokenFields as configured: none, one or two fields
RequiredTokenFieldsValues == {{}, {"access_token"}, {"access_token", "id_token"}}
IdentityTokenCookieName == "cookie"

Configs ==
    [Driver : Drivers,
     DisableNonce : BOOLEAN,
     DisableScope : BOOLEAN,
     DisableResponseType : BOOLEAN,
     JsCallbackEnabled : BOOLEAN,
     IdentityTokenCookieEnabled : BOOLEAN,
     DisablePassGrantType : BOOLEAN,
     EnableAcceptHeader : BOOLEAN,
     RequiredTokenFields : RequiredTokenFieldsValues]

\* The configurations whose token request and required fields are the usual
UsualExchange(cfg) ==
    /\ ~cfg.DisablePassGrantType
    /\ ~cfg.EnableAcceptHeader
    /\ cfg.RequiredTokenFields = {"access_token"}

\* The configurations that differ in what a callback reads
CallbackConfigs ==
    {cfg \in Configs : /\ cfg.Driver \in FlowDrivers
                       /\ ~cfg.DisableScope
                       /\ ~cfg.DisableResponseType
                       /\ ~cfg.JsCallbackEnabled
                       /\ UsualExchange(cfg)}

\* The configurations that differ in what the steps of a flow read
FlowConfigs ==
    {cfg \in CallbackConfigs : /\ cfg.Driver \in {"generic", "github"}
                               /\ ~cfg.IdentityTokenCookieEnabled}

\* The configurations that differ in what the redirect reads
RedirectConfigs ==
    {cfg \in Configs : /\ cfg.Driver = "generic"
                       /\ ~cfg.IdentityTokenCookieEnabled
                       /\ UsualExchange(cfg)}

\* The configurations that differ in what the token exchange reads
ExchangeConfigs ==
    {cfg \in Configs : /\ cfg.Driver \in FlowDrivers
                       /\ ~cfg.DisableNonce
                       /\ ~cfg.DisableScope
                       /\ ~cfg.DisableResponseType
                       /\ ~cfg.JsCallbackEnabled
                       /\ ~cfg.IdentityTokenCookieEnabled}

\* The configurations that differ in where a callback takes its claims from
DriverConfigs ==
    {cfg \in Configs : /\ ~cfg.DisableScope
                       /\ ~cfg.DisableResponseType
                       /\ ~cfg.JsCallbackEnabled
                       /\ ~cfg.IdentityTokenCookieEnabled
                       /\ UsualExchange(cfg)}

\* The configurations that differ in the callback address of a flow
CallbackAddressConfigs ==
    {cfg \in Configs : /\ cfg.Driver \in {"generic", "facebook"}
                       /\ ~cfg.DisableNonce
                       /\ ~cfg.DisableScope
                       /\ ~cfg.DisableResponseType
                       /\ ~cfg.IdentityTokenCookieEnabled
                       /\ UsualExchange(cfg)}

-----------------------------------------------------------------------------
(* The flow state store b.state *)

NoCode == "<none>"

exists(st, s) == s \in DOMAIN st

add(st, s, nonce) ==
    IF s \in DOMAIN st THEN st
    ELSE [x \in DOMAIN st \cup {s} |->
            IF x = s THEN [nonce |-> nonce, code |-> NoCode] ELSE st[x]]

addCode(st, s, code) ==
    IF s \in DOMAIN st /\ st[s].code = NoCode
    THEN [st EXCEPT ![s].code = code]
    ELSE st

sweep(st, s) == [x \in DOMAIN st \ {s} |-> st[x]]

EmptyStore == [x \in {} |-> [nonce |-> <<"nonce", 0>>, code |-> NoCode]]

-----------------------------------------------------------------------------
(* The state of one call *)

NoPayload == {}
NoURL == EmptyMap
\* no request to the token endpoint, no answer of it
NoRequest == [method |-> "", query |-> EmptyMap, form |-> EmptyMap, header |-> EmptyMap]
NoResponse == [kind |-> "none", data |-> EmptyMap]
\* no state has been handed to b.validateAccessToken
NoState == -1
Nil == [kind |-> "nil", args |-> <<>>]
Error(kind, args) == [kind |-> kind, args |-> args]

\* a fresh requests.Request: its Response holds Go's zero values
NewResponse ==
    [Code |-> 0,
     Payload |-> NoPayload,
     RedirectURL |-> NoURL,
     IdentityTokenCookie |-> [Enabled |-> FALSE, Name |-> "", Payload |-> ""]]

Idle ==
    [pc |-> "idle",
     params |-> EmptyMap,
     Response |-> NewResponse,
     err |-> Nil,
     state |-> 0,
     nonce |-> <<"nonce", 0>>,
     scopes |-> [shared |-> TRUE, len |-> 0, own |-> <<>>],
     accessToken |-> EmptyMap,
     tokenRequest |-> NoRequest,
     tokenResponse |-> NoResponse,
     verifierState |-> NoState,
     logged |-> {},
     m |-> NoPayload,
     trace |-> <<>>,
     peers |-> {}]

InFlight(c) == c.pc \notin {"idle", "returned", "panicked"}

\* The provider as constructed from a configuration of C, for the spare
\* capacities in S of b.config.Scopes, serving n calls
Constructed(C, S, n) ==
    /\ config \in C
    /\ \E spare \in S : scopesArray = Scopes \o [i \in 1..spare |-> <<>>]
    /\ store = EmptyStore
    /\ expired = {}
    /\ nextUUID = 1
    /\ remaining = n
    /\ call = [t \in Tasks |-> Idle]

Init == Constructed(CallbackConfigs, {0}, MaxCalls)

InitRequests == Constructed(CallbackConfigs, {MaxSpare}, MaxCalls)

InitRedirect == Constructed(RedirectConfigs, 0..MaxSpare, MaxCalls)

InitFlows == Constructed(FlowConfigs, {0}, MaxFlowCalls)

InitExchange == Constructed(ExchangeConfigs, {0}, MaxFlowCalls)

InitCallbackAddress == Constructed(CallbackAddressConfigs, {0}, MaxFlowCalls)

InitDrivers == Constructed(DriverConfigs, {0}, MaxFlowCalls)


-----------------------------------------------------------------------------
(* Collaborators of Authenticate that answer nondeterministically *)

\* a JSON value of a decoded response body
Str(x) == [type |-> "string", v |-> x]
NonStr == [type |-> "object", v |-> "{}"]

\* The id_token as the verifier sees it: whether signature, issuer, audience
\* and validity period check out, and the nonce claim it carries (0: none)
JWTs ==
    {[valid |-> FALSE, nonce |-> <<"nonce", 0>>]}
    \cup {[valid |-> TRUE, nonce |-> <<"nonce", n>>] : n \in 0..MaxStates}

\* b.validateAccessToken(state, data): the claims of data's id_token, or an
\* error; with nonce enabled the token's nonce must be the one registered
\* for state.
validateAccessToken(cfg, st, s, data, jwt) ==
    IF /\ Has(data, "id_token")
       /\ data["id_token"].type = "string"
       /\ jwt.valid
       /\ cfg.DisableNonce \/ (exists(st, s) /\ jwt.nonce = st[s].nonce)
    THEN [ok |-> TRUE, m |-> {"id_token"}]
    ELSE [ok |-> FALSE, m |-> NoPayload]

-----------------------------------------------------------------------------
(* Authenticate, lines 101-309 *)

\* Entered without line 103
Entered_CodeNotSet(p) == [Idle EXCEPT !.params = p]

\* lines 102-135: the call's state once the query is parsed
Entered(p) ==
    [Idle EXCEPT !.params = p, !.Response.Code = StatusBadRequest]

\* return err: the call ends and the handler's caller sees r.Response and err
Returned(c, err) == [c EXCEPT !.pc = "returned", !.err = err]

\* goroutine t is free to serve a request
Free(t) == call[t].pc = "idle" /\ remaining > 0

\* goroutine t starts the call c: the calls in flight are its peers
Begin(t, c) ==
    /\ remaining' = remaining - 1
    /\ call' = [u \in Tasks |->
                  IF u = t
                  THEN [c EXCEPT !.peers = {v \in Tasks \ {t} : InFlight(call[v])}]
                  ELSE IF InFlight(call[u])
                       THEN [call[u] EXCEPT !.peers = @ \cup {t}]
                       ELSE call[u]]

\* lines 144-149
AuthorizationFailedError(p) ==
    IF Has(p, "error_description")
    THEN Error("AuthorizationFailedDetailed", <<p["error"], p["error_description"]>>)
    ELSE Error("AuthorizationFailed", <<p["error"]>>)

AuthorizationFailed(t, R) ==
    /\ Free(t)
    /\ \E p \in R :
         /\ Branch(p) = "error"
         /\ Begin(t, Returned(Entered(p), AuthorizationFailedError(p)))
    /\ UNCHANGED <<config, scopesArray, store, expired, nextUUID>>

\* StateFound without the check
StateFound_Unchecked(st, p) == TRUE

\* line 153: b.state.exists(reqParamsState)
StateFound(st, p) == exists(st, reqParamsState(p))

\* lines 151-164: the code and state arrive
ReceivedAuthorizationCode(t, R) ==
    /\ Free(t)
    /\ \E p \in R :
         /\ Branch(p) = "code"
         /\ LET c == [Entered(p) EXCEPT !.trace = <<"exists">>]
            IN  IF StateFound(store, p)
                THEN Begin(t, [c EXCEPT !.pc = "addCode"])
                ELSE Begin(t, Returned(c, Error("AuthorizationStateNotFound", <<>>)))
    /\ UNCHANGED <<config, scopesArray, store, expired, nextUUID>>

\* lines 252-256
ImplicitCookie(cfg, p) ==
    IF cfg.IdentityTokenCookieEnabled
    THEN [Enabled |-> TRUE, Name |-> IdentityTokenCookieName,
          Payload |-> ParamOr(p, "id_token", "")]
    ELSE NewResponse.IdentityTokenCookie

\* lines 239-263: the tokens arrive in the request itself
ReceivedTokens(t, R) ==
    /\ Free(t)
    /\ \E p \in R, jwt \in JWTs :
         /\ Branch(p) = "implicit"
         /\ LET accessToken == ("access_token" :> Str(ParamOr(p, "access_token", "")))
                               @@ ("id_token" :> Str(ParamOr(p, "id_token", "")))
                v == validateAccessToken(config, store, reqParamsState(p), accessToken, jwt)
                c == [Entered(p) EXCEPT !.trace = <<"validate">>,
                                        !.verifierState = reqParamsState(p),
                                        !.accessToken = accessToken]
            IN  IF v.ok
                THEN Begin(t, Returned(
                        [c EXCEPT !.m = v.m,
                                  !.Response.Payload = v.m,
                                  !.Response.Code = StatusOK,
                                  !.Response.IdentityTokenCookie = ImplicitCookie(config, p)],
                        Nil))
                ELSE Begin(t, Returned(c, Error("ValidateAccessTokenFailed", <<>>)))
    /\ UNCHANGED <<config, scopesArray, store, expired, nextUUID>>

\* line 265
ResponseProcessingFailed(t, R) ==
    /\ Free(t)
    /\ \E p \in R :
         /\ Branch(p) = "unmatched"
         /\ Begin(t, Returned(Entered(p), Error("ResponseProcessingFailed", <<>>)))
    /\ UNCHANGED <<config, scopesArray, store, expired, nextUUID>>

-----------------------------------------------------------------------------
(* The code path, lines 154-238 *)

\* line 154
AddCode(t) ==
    /\ call[t].pc = "addCode"
    /\ store' = addCode(store, reqParamsState(call[t].params), call[t].params["code"])
    /\ call' = [call EXCEPT ![t].pc = "fetchToken",
                            ![t].trace = Append(@, "addCode")]
    /\ UNCHANGED <<config, scopesArray, expired, nextUUID, remaining>>

\* line 166: reqPath is the same for every request of a flow, and left out
reqRedirectURI == "/authorization-code-callback"

\* tokenRequest with grant_type set whatever b.disablePassGrantType
tokenRequest_GrantTypeAlways(cfg, redirectURI, state, code) ==
    [method |-> "POST",
     query |-> EmptyMap,
     form |-> ("client_id" :> ClientID)
              @@ ("client_secret" :> ClientSecret)
              @@ ("grant_type" :> "authorization_code")
              @@ ("state" :> state)
              @@ ("code" :> code)
              @@ ("redirect_uri" :> redirectURI),
     header |-> (IF cfg.EnableAcceptHeader
                 THEN "Accept" :> "application/json" ELSE EmptyMap)
                @@ ("Content-Type" :> "application/x-www-form-urlencoded")
                @@ ("Content-Length" :> "len(params.Encode())")]

\* lines 312-342: the POST request fetchAccessToken puts together
tokenRequest(cfg, redirectURI, state, code) ==
    [method |-> "POST",
     query |-> EmptyMap,
     form |-> ("client_id" :> ClientID)
              @@ ("client_secret" :> ClientSecret)
              @@ (IF ~cfg.DisablePassGrantType
                  THEN "grant_type" :> "authorization_code" ELSE EmptyMap)
              @@ ("state" :> state)
              @@ ("code" :> code)
              @@ ("redirect_uri" :> redirectURI),
     header |-> (IF cfg.EnableAcceptHeader
                 THEN "Accept" :> "application/json" ELSE EmptyMap)
                @@ ("Content-Type" :> "application/x-www-form-urlencoded")
                @@ ("Content-Length" :> "len(params.Encode())")]

\* lines 392-417: the GET request fetchFacebookAccessToken puts together
facebookTokenRequest(cfg, redirectURI, state, code) ==
    [method |-> "GET",
     query |-> ("client_id" :> ClientID)
               @@ ("client_secret" :> ClientSecret)
               @@ ("code" :> code)
               @@ ("redirect_uri" :> redirectURI),
     form |-> EmptyMap,
     header |-> IF cfg.EnableAcceptHeader
                THEN "Accept" :> "application/json" ELSE EmptyMap]

\* What the token endpoint answers: no answer, no JSON object, or an object
TokenBodies ==
    {("access_token" :> Str("T")) @@ ("id_token" :> Str("JX")),
     ("access_token" :> Str("T")),
     EmptyMap,
     ("error" :> Str("invalid_grant")) @@ ("error_description" :> NonStr),
     ("access_token" :> Str("T")) @@ ("id_token" :> NonStr),
     ("id_token" :> Str("JX")),
     ("error" :> Str("invalid_grant")),
     ("error" :> Str("invalid_grant")) @@ ("error_description" :> Str("used")),
     ("error" :> NonStr),
     ("error" :> NonStr) @@ ("error_description" :> Str("used")),
     ("error" :> Str("invalid_grant")) @@ ("access_token" :> Str("T"))}

\* "nobrowser": b.newBrowser() fails and no request is sent
TokenResponses ==
    {[kind |-> "nobrowser", data |-> EmptyMap],
     [kind |-> "transport", data |-> EmptyMap],
     [kind |-> "notjson", data |-> EmptyMap]}
    \cup {[kind |-> "json", data |-> b] : b \in TokenBodies}

Failed(err) == [status |-> "error", err |-> err, data |-> EmptyMap]
Panicked == [status |-> "panic", err |-> Nil, data |-> EmptyMap]

\* fetchAccessToken without the loop over the required fields
fetchAccessToken_FieldsUnchecked(cfg, resp) ==
    IF resp.kind = "nobrowser" THEN {Failed(Error("browser", <<>>))}
    ELSE IF resp.kind = "transport" THEN {Failed(Error("transport", <<>>))}
    ELSE IF resp.kind = "notjson" THEN {Failed(Error("json", <<>>))}
    ELSE LET data == resp.data IN
         IF Has(data, "error")
         THEN IF Has(data, "error_description")
              THEN IF data["error"].type = "string"
                      /\ data["error_description"].type = "string"
                   THEN {Failed(Error("GetAccessTokenFailedDetailed",
                                      <<data["error"], data["error_description"]>>))}
                   ELSE {Panicked}
              ELSE {Failed(Error("GetAccessTokenFailed", <<data["error"]>>))}
         ELSE {[status |-> "ok", err |-> Nil, data |-> data]}

\* fetchAccessToken, lines 326-388: the results it can give for a response
\* (the required fields are visited in the order of a Go map, any order)
fetchAccessToken(cfg, resp) ==
    IF resp.kind = "nobrowser" THEN {Failed(Error("browser", <<>>))}
    ELSE IF resp.kind = "transport" THEN {Failed(Error("transport", <<>>))}
    ELSE IF resp.kind = "notjson" THEN {Failed(Error("json", <<>>))}
    ELSE LET data == resp.data IN
         IF Has(data, "error")
         THEN IF Has(data, "error_description")
              THEN IF data["error"].type = "string"
                      /\ data["error_description"].type = "string"
                   THEN {Failed(Error("GetAccessTokenFailedDetailed",
                                      <<data["error"], data["error_description"]>>))}
                   ELSE {Panicked}
              ELSE {Failed(Error("GetAccessTokenFailed", <<data["error"]>>))}
         ELSE IF \E k \in cfg.RequiredTokenFields : ~Has(data, k)
              THEN {Failed(Error("AuthorizationServerResponseFieldNotFound", <<k>>)) :
                      k \in {f \in cfg.RequiredTokenFields : ~Has(data, f)}}
              ELSE {[status |-> "ok", err |-> Nil, data |-> data]}

\* fetchFacebookAccessToken, lines 402-455
fetchFacebookAccessToken(cfg, resp) ==
    IF resp.kind = "nobrowser" THEN {Failed(Error("browser", <<>>))}
    ELSE IF resp.kind = "transport" THEN {Failed(Error("transport", <<>>))}
    ELSE IF resp.kind = "notjson" THEN {Failed(Error("json", <<>>))}
    ELSE LET data == resp.data IN
         IF Has(data, "error")
         THEN IF Has(data, "error_description")
              THEN IF data["error"].type = "string"
                      /\ data["error_description"].type = "string"
                   THEN {Failed(Error("GetAccessTokenFailedDetailed",
                                      <<data["error"], data["error_description"]>>))}
                   ELSE {Panicked}
              ELSE {Failed(Error("GetAccessTokenFailed", <<data["error"]>>))}
         ELSE IF \E k \in cfg.RequiredTokenFields : ~Has(data, k)
              THEN {Failed(Error("AuthorizationServerResponseFieldNotFound", <<k>>)) :
                      k \in {f \in cfg.RequiredTokenFields : ~Has(data, f)}}
              ELSE {[status |-> "ok", err |-> Nil, data |-> data]}

\* lines 166-188: the token exchange
FetchAccessToken(t) ==
    /\ call[t].pc = "fetchToken"
    /\ \E resp \in TokenResponses :
         \E res \in (IF config.Driver = "facebook"
                     THEN fetchFacebookAccessToken(config, resp)
                     ELSE fetchAccessToken(config, resp)) :
            LET p == call[t].params
                req == IF config.Driver = "facebook"
                       THEN facebookTokenRequest(config, reqRedirectURI,
                                                 reqParamsState(p), p["code"])
                       ELSE tokenRequest(config, reqRedirectURI,
                                         reqParamsState(p), p["code"])
                c == IF resp.kind = "nobrowser"
                     THEN [call[t] EXCEPT !.tokenResponse = resp]
                     ELSE [call[t] EXCEPT !.trace = Append(@, "token"),
                                          !.tokenRequest = req,
                                          !.tokenResponse = resp]
            IN  call' = [call EXCEPT ![t] =
                   CASE res.status = "ok" ->
                          [c EXCEPT !.pc = "claims", !.accessToken = res.data]
                     [] res.status = "error" ->
                          Returned(c, Error("FetchAccessTokenFailed", <<res.err>>))
                     [] OTHER -> [c EXCEPT !.pc = "panicked"]]
    /\ UNCHANGED <<config, scopesArray, store, expired, nextUUID, remaining>>

\* ClaimsDrivers without patreon
ClaimsDrivers_WithoutPatreon == {"github", "gitlab", "facebook", "discord"}

\* line 193
ClaimsDrivers == {"github", "gitlab", "facebook", "discord", "patreon"}

\* lines 193-197: b.fetchClaims(accessToken) answers with claims or an error
FetchClaims(t) ==
    /\ call[t].pc = "claims"
    /\ config.Driver \in ClaimsDrivers
    /\ \E ok \in BOOLEAN :
         LET c == [call[t] EXCEPT !.trace = Append(@, "claims")]
         IN  call' = [call EXCEPT ![t] =
                IF ok THEN [c EXCEPT !.pc = "userInfo", !.m = {"claims"}]
                ELSE Returned(c, Error("FetchClaimsFailed", <<>>))]
    /\ UNCHANGED <<config, scopesArray, store, expired, nextUUID, remaining>>

\* lines 198-202
ValidateAccessToken(t) ==
    /\ call[t].pc = "claims"
    /\ config.Driver \notin ClaimsDrivers
    /\ \E jwt \in JWTs :
         LET c == [call[t] EXCEPT !.trace = Append(@, "validate"),
                                  !.verifierState = reqParamsState(call[t].params)]
             v == validateAccessToken(config, store, c.verifierState,
                                      c.accessToken, jwt)
         IN  call' = [call EXCEPT ![t] =
                IF v.ok THEN [c EXCEPT !.pc = "userInfo", !.m = v.m]
                ELSE Returned(c, Error("ValidateAccessTokenFailed", <<>>))]
    /\ UNCHANGED <<config, scopesArray, store, expired, nextUUID, remaining>>

\* lines 205-212: b.fetchUserInfo(accessToken, m); its error is only logged
\* (call.logged keeps the failures the call has logged)
FetchUserInfo(t) ==
    /\ call[t].pc = "userInfo"
    /\ \E ok \in BOOLEAN :
         call' = [call EXCEPT ![t].pc = "userGroups",
                              ![t].trace = Append(@, "userinfo"),
                              ![t].m = IF ok THEN @ \cup {"userinfo"} ELSE @,
                              ![t].logged = IF ok THEN @
                                            ELSE @ \cup {"failed fetching user info"}]
    /\ UNCHANGED <<config, scopesArray, store, expired, nextUUID, remaining>>

\* lines 223-229: the cookie, or a panic of v.(string) at line 227, after
\* lines 225-226 have enabled and named the cookie
CodeCookie(cfg, accessToken) ==
    IF cfg.IdentityTokenCookieEnabled /\ Has(accessToken, "id_token")
    THEN IF accessToken["id_token"].type = "string"
         THEN [status |-> "ok",
               cookie |-> [Enabled |-> TRUE, Name |-> IdentityTokenCookieName,
                           Payload |-> accessToken["id_token"].v]]
         ELSE [status |-> "panic",
               cookie |-> [Enabled |-> TRUE, Name |-> IdentityTokenCookieName,
                           Payload |-> ""]]
    ELSE [status |-> "ok", cookie |-> NewResponse.IdentityTokenCookie]

\* lines 214-238: b.fetchUserGroups(accessToken, m), whose error is only
\* logged, then the response
FetchUserGroups(t) ==
    /\ call[t].pc = "userGroups"
    /\ \E ok \in BOOLEAN :
         LET m == IF ok THEN call[t].m \cup {"groups"} ELSE call[t].m
             c == [call[t] EXCEPT !.trace = Append(@, "groups"), !.m = m,
                                  !.logged = IF ok THEN @
                                             ELSE @ \cup {"failed fetching user groups"}]
             k == CodeCookie(config, c.accessToken)
         IN  call' = [call EXCEPT ![t] =
                IF k.status = "panic"
                THEN [c EXCEPT !.pc = "panicked",
                               !.Response.IdentityTokenCookie = k.cookie]
                ELSE Returned([c EXCEPT !.Response.IdentityTokenCookie = k.cookie,
                                        !.Response.Payload = m,
                                        !.Response.Code = StatusOK],
                              Nil)]
    /\ UNCHANGED <<config, scopesArray, store, expired, nextUUID, remaining>>


-----------------------------------------------------------------------------
(* The redirect path, lines 267-308 *)

\* b.config.Scopes: the first Len(Scopes) elements of its backing array
ConfigScopes(arr) == SubSeq(arr, 1, Len(Scopes))

\* line 280: append(scopes, toks...) on the slice b.config.Scopes.  Within
\* the capacity append writes behind the slice's end, into the array every
\* call shares; beyond it append copies into an array of the call's own.
appendScopes(arr, toks) ==
    IF Len(Scopes) + Len(toks) <= Len(arr)
    THEN [array |-> [i \in 1..Len(arr) |->
                        IF i > Len(Scopes) /\ i <= Len(Scopes) + Len(toks)
                        THEN toks[i - Len(Scopes)] ELSE arr[i]],
          scopes |-> [shared |-> TRUE, len |-> Len(Scopes) + Len(toks), own |-> <<>>]]
    ELSE [array |-> arr,
          scopes |-> [shared |-> FALSE, len |-> Len(Scopes) + Len(toks),
                      own |-> ConfigScopes(arr) \o toks]]

\* the elements of a call's slice scopes
Elements(arr, scopes) ==
    IF scopes.shared THEN SubSeq(arr, 1, scopes.len) ELSE scopes.own

\* line 269: util.GetRandomString(32) on its k-th call, a string no other
\* call returns
GetRandomString(k) == <<"nonce", k>>

\* lines 267-281: the state and the nonce are minted, the scopes collected
Redirect(t, R) ==
    /\ Free(t)
    /\ nextUUID <= MaxStates
    /\ \E p \in R :
         /\ Branch(p) = "redirect"
         /\ LET c == [Entered(p) EXCEPT !.pc = "buildURL",
                                        !.Response.Code = StatusFound,
                                        !.state = nextUUID,
                                        !.nonce = GetRandomString(nextUUID)]
                whole == [shared |-> TRUE, len |-> Len(Scopes), own |-> <<>>]
            IN  IF ~config.DisableScope /\ additionalScopesExists(p)
                THEN LET a == appendScopes(scopesArray, Split(p["additional_scopes"], " "))
                     IN  /\ scopesArray' = a.array
                         /\ Begin(t, [c EXCEPT !.scopes = a.scopes])
                ELSE /\ scopesArray' = scopesArray
                     /\ Begin(t, [c EXCEPT !.scopes = whole])
    /\ nextUUID' = nextUUID + 1
    /\ UNCHANGED <<config, store, expired>>

\* lines 270-298: the query of the redirect URL
RedirectParamsOf(cfg, arr, c) ==
    ("state" :> c.state)
    @@ (IF ~cfg.DisableNonce THEN "nonce" :> c.nonce ELSE EmptyMap)
    @@ (IF ~cfg.DisableScope
        THEN "scope" :> Join(Elements(arr, c.scopes), " ") ELSE EmptyMap)
    @@ ("redirect_uri" :> IF cfg.JsCallbackEnabled
                          THEN "/authorization-code-js-callback"
                          ELSE "/authorization-code-callback")
    @@ (IF ~cfg.DisableResponseType
        THEN "response_type" :> Join(ResponseType, " ") ELSE EmptyMap)
    @@ (IF loginHintExists(c.params)
        THEN "login_hint" :> c.params["login_hint"] ELSE EmptyMap)
    @@ ("client_id" :> ClientID)

\* lines 282-300: strings.Join reads the scopes, the URL is put together
BuildRedirectURL(t) ==
    /\ call[t].pc = "buildURL"
    /\ call' = [call EXCEPT
                  ![t].pc = "stateAdd",
                  ![t].Response.RedirectURL = RedirectParamsOf(config, scopesArray, call[t])]
    /\ UNCHANGED <<config, scopesArray, store, expired, nextUUID, remaining>>

\* Registered with the state left out of the store
Registered_Forgotten(st, c) == st

\* line 302
Registered(st, c) == add(st, c.state, c.nonce)

\* lines 302-308
StateAdd(t) ==
    /\ call[t].pc = "stateAdd"
    /\ store' = Registered(store, call[t])
    /\ call' = [call EXCEPT ![t] = Returned([@ EXCEPT !.trace = Append(@, "add")], Nil)]
    /\ UNCHANGED <<config, scopesArray, expired, nextUUID, remaining>>

-----------------------------------------------------------------------------
(* The environment *)

\* The caller has taken the call's result; the goroutine serves the next
\* request.
Done(t) ==
    /\ call[t].pc \in {"returned", "panicked"}
    /\ call' = [u \in Tasks |->
                  IF u = t THEN Idle ELSE [call[u] EXCEPT !.peers = @ \ {t}]]
    /\ UNCHANGED <<config, scopesArray, store, expired, nextUUID, remaining>>

\* The store's sweep finds the state s older than its time to live
Sweep ==
    /\ \E s \in DOMAIN store :
         /\ store' = sweep(store, s)
         /\ expired' = expired \cup {s}
    /\ UNCHANGED <<config, scopesArray, nextUUID, remaining, call>>

\* The steps of a call in flight
Continue(t) ==
    \/ AddCode(t)
    \/ FetchAccessToken(t)
    \/ FetchClaims(t)
    \/ ValidateAccessToken(t)
    \/ FetchUserInfo(t)
    \/ FetchUserGroups(t)
    \/ BuildRedirectURL(t)
    \/ StateAdd(t)
    \/ Done(t)

\* Goroutines serving the requests of the flows concurrently
Next ==
    \/ \E t \in Tasks :
         \/ AuthorizationFailed(t, FlowRequests)
         \/ ReceivedAuthorizationCode(t, FlowRequests)
         \/ ReceivedTokens(t, FlowRequests)
         \/ ResponseProcessingFailed(t, FlowRequests)
         \/ Redirect(t, FlowRequests)
         \/ Continue(t)
    \/ Sweep

Spec == Init /\ [][Next]_vars

\* One goroutine serving requests of every shape one after the other
NextRequests ==
    \/ AuthorizationFailed(1, Requests)
    \/ ReceivedAuthorizationCode(1, Requests)
    \/ ReceivedTokens(1, Requests)
    \/ ResponseProcessingFailed(1, Requests)
    \/ Redirect(1, Requests)
    \/ Continue(1)
    \/ Sweep

SpecRequests == InitRequests /\ [][NextRequests]_vars

\* Goroutines serving concurrently the requests that start a flow
NextRedirect ==
    \/ \E t \in Tasks :
         \/ Redirect(t, RedirectRequests)
         \/ BuildRedirectURL(t)
         \/ StateAdd(t)
         \/ Done(t)
    \/ Sweep

SpecRedirect == InitRedirect /\ [][NextRedirect]_vars

\* Goroutines serving concurrently the redirect and the callbacks of a flow
SpecFlows == InitFlows /\ [][Next]_vars

\* The requests of one flow through the token exchange
ExchangeRequests ==
    {EmptyMap} \cup {("code" :> "abc") @@ ("state" :> s) : s \in StateValues}

\* One goroutine serving the redirect and the callback with the code, for
\* every configuration and answer of the token exchange
NextExchange ==
    \/ ReceivedAuthorizationCode(1, ExchangeRequests)
    \/ Redirect(1, ExchangeRequests)
    \/ Continue(1)
    \/ Sweep

SpecExchange == InitExchange /\ [][NextExchange]_vars

\* The same goroutine, for every driver
SpecDrivers == InitDrivers /\ [][NextExchange]_vars

\* Goroutines serving the redirect and the callback of a flow, for both
\* callback addresses
NextCallbackAddress ==
    \/ \E t \in Tasks :
         \/ ReceivedAuthorizationCode(t, ExchangeRequests)
         \/ Redirect(t, ExchangeRequests)
         \/ Continue(t)
    \/ Sweep

SpecCallbackAddress == InitCallbackAddress /\ [][NextCallbackAddress]_vars


-----------------------------------------------------------------------------
(* Notions the properties speak of *)

\* the step in which goroutine t starts a call
Arrived(t) == call[t].pc = "idle" /\ call'[t].pc # "idle"

\* the step in which the call of goroutine t returns
Returns(t) == call[t].pc # "returned" /\ call'[t].pc = "returned"

HasReturned(t) == call[t].pc = "returned"

Events(c) == {c.trace[i] : i \in 1..Len(c.trace)}

\* requests to the authorization server
OutboundEvents == {"token", "claims", "userinfo", "groups"}
NoOutbound(c) == Events(c) \cap OutboundEvents = {}

Succeeded(c) ==
    c.pc = "returned" /\ c.err = Nil /\ c.Response.Code = 200
    /\ c.Response.Payload # NoPayload

Live(s) == s \in DOMAIN store

-----------------------------------------------------------------------------
\* C1: a callback with code and state (and no error) whose state is not live
\* in the store when it arrives returns AuthorizationStateNotFound with
\* response code 400 in that very step: no outbound request was issued, the
\* code was not attached and the store is as it was.
C1_UnknownStateRejected ==
    [][\A t \in Tasks :
         LET p == call'[t].params IN
         (/\ Arrived(t)
          /\ codeExists(p) /\ stateExists(p) /\ ~errorExists(p)
          /\ ~Live(reqParamsState(p)))
         => /\ call'[t].pc = "returned"
            /\ call'[t].err = Error("AuthorizationStateNotFound", <<>>)
            /\ call'[t].Response.Code = 400
            /\ NoOutbound(call'[t])
            /\ "addCode" \notin Events(call'[t])
            /\ store' = store]_vars

\* C1 witness: a callback was turned away while another state was live
C1_Witness ==
    \E t \in Tasks :
        /\ HasReturned(t)
        /\ call[t].err.kind = "AuthorizationStateNotFound"
        /\ codeExists(call[t].params) /\ stateExists(call[t].params)
        /\ DOMAIN store # {}

\* C4: a request with an error parameter, whatever else it carries, returns
\* AuthorizationFailedDetailed{error, error_description} when it has an
\* error_description and AuthorizationFailed{error} otherwise, with response
\* code 400, in the step it arrives: the store was neither read nor changed
\* and nothing was requested.
C4_ErrorParameterWins ==
    [][\A t \in Tasks :
         LET p == call'[t].params IN
         (Arrived(t) /\ errorExists(p))
         => /\ call'[t].pc = "returned"
            /\ IF Has(p, "error_description")
               THEN /\ call'[t].err.kind = "AuthorizationFailedDetailed"
                    /\ call'[t].err.args = <<p["error"], p["error_description"]>>
               ELSE /\ call'[t].err.kind = "AuthorizationFailed"
                    /\ call'[t].err.args = <<p["error"]>>
            /\ call'[t].Response.Code = 400
            /\ call'[t].trace = <<>>
            /\ store' = store]_vars

\* C4 witness: an error came with code, state and both tokens, the state live
C4_Witness ==
    \E t \in Tasks :
        LET p == call[t].params IN
        /\ HasReturned(t)
        /\ call[t].err.kind = "AuthorizationFailedDetailed"
        /\ codeExists(p) /\ stateExists(p)
        /\ accessTokenExists(p) /\ idTokenExists(p)
        /\ Live(reqParamsState(p))

\* C5: a request without error that has state, code or access_token but
\* neither code with state nor id_token with access_token returns
\* ResponseProcessingFailed with response code 400 in the step it arrives:
\* no state was minted, the store is as it was and nothing was requested.
C5_UnmatchedShapeRejected ==
    [][\A t \in Tasks :
         LET p == call'[t].params IN
         (/\ Arrived(t)
          /\ ~errorExists(p)
          /\ stateExists(p) \/ codeExists(p) \/ accessTokenExists(p)
          /\ ~(codeExists(p) /\ stateExists(p))
          /\ ~(idTokenExists(p) /\ accessTokenExists(p)))
         => /\ call'[t].pc = "returned"
            /\ call'[t].err = Error("ResponseProcessingFailed", <<>>)
            /\ call'[t].Response.Code = 400
            /\ call'[t].state = 0
            /\ nextUUID' = nextUUID
            /\ call'[t].trace = <<>>
            /\ store' = store]_vars

\* C5 witness: an access_token came alone with a live state
C5_Witness ==
    \E t \in Tasks :
        LET p == call[t].params IN
        /\ HasReturned(t)
        /\ call[t].err.kind = "ResponseProcessingFailed"
        /\ accessTokenExists(p) /\ stateExists(p) /\ ~idTokenExists(p)
        /\ Live(reqParamsState(p))

\* C8: on every return the response code is 302, 200 or 400; the error is
\* nil iff the code is 302 or 200; the code is 302 iff a redirect URL was
\* emitted; it is 200 iff a claim map was attached; an error return leaves
\* the code at 400 with no payload, no redirect URL and no identity cookie.
C8_ResponseCodes ==
    \A t \in Tasks :
        HasReturned(t) =>
            LET r == call[t].Response IN
            /\ r.Code \in {302, 200, 400}
            /\ (call[t].err = Nil) <=> (r.Code \in {302, 200})
            /\ (r.Code = 302) <=> (r.RedirectURL # NoURL)
            /\ (r.Code = 200) <=> (r.Payload # NoPayload)
            /\ call[t].err # Nil =>
                 /\ r.Code = 400
                 /\ r.Payload = NoPayload
                 /\ r.RedirectURL = NoURL
                 /\ ~r.IdentityTokenCookie.Enabled

\* C8 witness: a call returned an error after the token exchange had given
\* it tokens
C8_Witness ==
    \E t \in Tasks :
        /\ HasReturned(t)
        /\ call[t].err.kind = "ValidateAccessTokenFailed"
        /\ "token" \in Events(call[t])
        /\ Has(call[t].accessToken, "id_token")


-----------------------------------------------------------------------------
\* the states whose redirect has been emitted: minted, and registered by a
\* call that has gone through line 302
Emitted ==
    {s \in 1..(nextUUID - 1) :
        \A t \in Tasks : ~(InFlight(call[t]) /\ call[t].state = s)}

\* a request with none of state, code, access_token and error starts a flow:
\* it is answered 302 with a state no call has used before
C6_Starts(t) ==
    LET p == call'[t].params IN
    (/\ Arrived(t)
     /\ ~stateExists(p) /\ ~codeExists(p)
     /\ ~accessTokenExists(p) /\ ~errorExists(p))
    => /\ InFlight(call'[t])
       /\ call'[t].Response.Code = 302
       /\ call'[t].state = nextUUID
       /\ ~Live(call'[t].state)
       /\ nextUUID' > nextUUID

\* when that call returns, it returns nil with 302, and its last step has
\* added to the store one entry, under the state of the redirect URL and
\* with the nonce of the redirect URL
C6_Registers(t) ==
    LET r == call'[t].Response
        redirects == \/ r.Code = 302
                     \/ r.RedirectURL # NoURL
                     \/ call'[t].state # 0
    IN  (Returns(t) /\ redirects)
        => /\ call'[t].err = Nil
           /\ r.Code = 302
           /\ Has(r.RedirectURL, "state")
           /\ LET s == r.RedirectURL["state"] IN
              /\ s = call'[t].state
              /\ s \notin DOMAIN store
              /\ DOMAIN store' = DOMAIN store \cup {s}
              /\ \A x \in DOMAIN store : store'[x] = store[x]
              /\ store'[s].code = NoCode
              /\ ~config.DisableNonce =>
                    /\ Has(r.RedirectURL, "nonce")
                    /\ store'[s].nonce = r.RedirectURL["nonce"]

\* C6: a request with none of state, code, access_token and error starts a
\* flow: it returns nil with response code 302, and by its return one entry
\* has been added to the store, under the state of the redirect URL and (with
\* nonce enabled) with the nonce of the redirect URL; every state emitted in
\* a redirect is live in the store unless its time to live has expired.
C6_RedirectRegistersState ==
    /\ [](\A s \in Emitted : s \notin expired => Live(s))
    /\ [][\A t \in Tasks : C6_Starts(t) /\ C6_Registers(t)]_vars

\* C6 witness: a state emitted in a redirect is live, with a nonce and with
\* the code a callback has attached, after that callback has succeeded
C6_Witness ==
    \E t \in Tasks :
        /\ Succeeded(call[t])
        /\ codeExists(call[t].params)
        /\ reqParamsState(call[t].params) \in Emitted
        /\ Live(reqParamsState(call[t].params))
        /\ store[reqParamsState(call[t].params)].code = "abc"
        /\ ~config.DisableNonce


-----------------------------------------------------------------------------
\* the call took the code path: code and state arrived without an error
OnCodePath(c) ==
    codeExists(c.params) /\ stateExists(c.params) /\ ~errorExists(c.params)

\* the call took the tokens' path
OnImplicitPath(c) ==
    /\ idTokenExists(c.params) /\ accessTokenExists(c.params)
    /\ ~errorExists(c.params)
    /\ ~(codeExists(c.params) /\ stateExists(c.params))

\* the call found its state live when it arrived: it went on to line 154
FoundLive(c) == OnCodePath(c) /\ "addCode" \in Events(c)

\* C2: once a callback with code and state has returned 200 with claims, its
\* state is no longer live in the store (so that a later callback with the
\* same state is answered AuthorizationStateNotFound).
C2_StateConsumedOnSuccess ==
    [][\A t \in Tasks :
         (Returns(t) /\ OnCodePath(call'[t]) /\ Succeeded(call'[t]))
         => ~(reqParamsState(call'[t].params) \in DOMAIN store')]_vars

\* C3: of two concurrent callbacks with code and the same state, live when
\* each arrived, that the authorization server and the verifier both accept,
\* exactly one returns 200 with claims and the other returns
\* AuthorizationStateNotFound.
C3_OneOfTwoCallbacksSucceeds ==
    \A t, u \in Tasks :
        LET accepted(c) == c.err.kind \notin {"FetchAccessTokenFailed",
                                              "FetchClaimsFailed",
                                              "ValidateAccessTokenFailed"}
            notFound(c) == c.err.kind = "AuthorizationStateNotFound"
        IN
        (/\ t # u
         /\ HasReturned(t) /\ HasReturned(u)
         /\ u \in call[t].peers
         /\ FoundLive(call[t]) /\ FoundLive(call[u])
         /\ reqParamsState(call[t].params) = reqParamsState(call[u].params)
         /\ accepted(call[t]) /\ accepted(call[u]))
        => \/ Succeeded(call[t]) /\ notFound(call[u])
           \/ Succeeded(call[u]) /\ notFound(call[t])

\* C9: a callback with id_token and access_token (and not code with state)
\* issues no token exchange; and when the state it carries is not live in
\* the store as it arrives (an absent or empty state included) it returns
\* AuthorizationStateNotFound with no outbound request, never success.
C9_ImplicitNeedsLiveState ==
    [][\A t \in Tasks :
         (Arrived(t) /\ OnImplicitPath(call'[t]))
         => /\ "token" \notin Events(call'[t])
            /\ ~Live(reqParamsState(call'[t].params)) =>
                 /\ call'[t].pc = "returned"
                 /\ call'[t].err.kind = "AuthorizationStateNotFound"
                 /\ NoOutbound(call'[t])]_vars

\* C10: when a callback that found its state live returns an error (it
\* stopped before the state was consumed; ValidateAccessTokenFailed on a
\* nonce mismatch is one such error), the entry of that state has been
\* removed from the store by the time it returns.
C10_StatePurgedOnFailure ==
    [][\A t \in Tasks :
         (/\ Returns(t)
          /\ FoundLive(call'[t])
          /\ call'[t].err # Nil)
         => ~(reqParamsState(call'[t].params) \in DOMAIN store')]_vars

\* the scope the redirect of request p is to carry: the configured scopes,
\* then the space-separated additional_scopes of p, joined by single spaces
ExpectedScope(p) ==
    Join(Scopes \o (IF additionalScopesExists(p)
                    THEN Split(p["additional_scopes"], " ") ELSE <<>>), " ")

\* C7: the query of the redirect URL has state, client_id and redirect_uri;
\* nonce iff disable_nonce is false; scope iff disable_scope is false;
\* response_type iff disable_response_type is false; login_hint iff the
\* request has it; and nothing else.  The scope is the configured scopes
\* followed by the additional_scopes of the same request.
C7_RedirectQuery ==
    \A t \in Tasks :
        LET c == call[t] url == c.Response.RedirectURL IN
        (HasReturned(t) /\ url # NoURL) =>
            /\ DOMAIN url =
                 {"state", "client_id", "redirect_uri"}
                 \cup (IF config.DisableNonce THEN {} ELSE {"nonce"})
                 \cup (IF config.DisableScope THEN {} ELSE {"scope"})
                 \cup (IF config.DisableResponseType THEN {} ELSE {"response_type"})
                 \cup (IF loginHintExists(c.params) THEN {"login_hint"} ELSE {})
            /\ Has(url, "scope") => url["scope"] = ExpectedScope(c.params)

-----------------------------------------------------------------------------
\* the token envelope of a call: the decoded answer of the token endpoint on
\* the code path, the inbound tokens on the other
Envelope(c) == c.accessToken

\* C11: the identity token cookie is enabled on a call's response iff the
\* call has ended in success, the cookie is configured and the token envelope
\* holds id_token; when enabled it carries the configured name and the raw
\* id_token as payload.
C11_CookieIffSuccess ==
    \A t \in Tasks :
        LET c == call[t]
            k == c.Response.IdentityTokenCookie
        IN  /\ k.Enabled <=> /\ Succeeded(c)
                             /\ config.IdentityTokenCookieEnabled
                             /\ Has(Envelope(c), "id_token")
            /\ k.Enabled => /\ k.Name = IdentityTokenCookieName
                            /\ Has(Envelope(c), "id_token")
                            /\ Envelope(c)["id_token"].type = "string"
                            /\ k.Payload = Envelope(c)["id_token"].v

-----------------------------------------------------------------------------
(* The token exchange of a call *)

\* the decoded body of the token endpoint's answer, when it is a JSON object
Decoded(c) == c.tokenResponse.kind = "json"

\* b.fetch*AccessToken has returned an error
ExchangeFailed(c) == c.pc = "returned" /\ c.err.kind = "FetchAccessTokenFailed"

\* b.fetch*AccessToken has panicked (the panic of line 227 comes after the
\* groups are fetched)
ExchangeAborted(c) == c.pc = "panicked" /\ "groups" \notin Events(c)

\* b.fetch*AccessToken has returned the envelope
ExchangeSucceeded(c) ==
    /\ c.tokenResponse # NoResponse
    /\ ~ExchangeFailed(c)
    /\ ~ExchangeAborted(c)

\* the error the exchanger is to return for a body with an error key
ExpectedTokenError(d) ==
    IF Has(d, "error_description")
    THEN Error("GetAccessTokenFailedDetailed", <<d["error"], d["error_description"]>>)
    ELSE Error("GetAccessTokenFailed", <<d["error"]>>)

\* C12: for every decoded body with an error key, whatever the JSON types of
\* error and error_description, the exchanger returns an error and does not
\* abort: GetAccessTokenFailedDetailed{error, error_description} when the
\* description is present, GetAccessTokenFailed{error} otherwise.
C12_ErrorBodyIsReturned ==
    \A t \in Tasks :
        LET c == call[t]
            d == c.tokenResponse.data
        IN  (Decoded(c) /\ Has(d, "error"))
            => /\ c.pc = "returned"
               /\ c.err = Error("FetchAccessTokenFailed", <<ExpectedTokenError(d)>>)

\* C13: for every decoded body the exchanger succeeds iff the body has no
\* error key and holds every required field; the error key is looked at
\* before the required fields; a body without error that lacks a required
\* field gives AuthorizationServerResponseFieldNotFound{k} for a field k it
\* lacks; on success the envelope is the decoded body, unchanged.
C13_ExchangeOutcome ==
    \A t \in Tasks :
        LET c == call[t]
            d == c.tokenResponse.data
            missing == {k \in config.RequiredTokenFields : ~Has(d, k)}
        IN  Decoded(c)
            => /\ ExchangeSucceeded(c) <=> (~Has(d, "error") /\ missing = {})
               /\ ExchangeSucceeded(c) => Envelope(c) = d
               /\ (~Has(d, "error") /\ missing # {})
                  => \E k \in missing :
                       c.err = Error("FetchAccessTokenFailed",
                                  <<Error("AuthorizationServerResponseFieldNotFound", <<k>>)>>)
               /\ (Has(d, "error") /\ ExchangeFailed(c))
                  => c.err.args[1].kind \in {"GetAccessTokenFailed",
                                             "GetAccessTokenFailedDetailed"}

\* C13 witness: with access_token and id_token required, the empty body has
\* been refused for its missing id_token, and nothing came after
C13_Witness ==
    \E t \in Tasks :
        /\ config.RequiredTokenFields = {"access_token", "id_token"}
        /\ call[t].tokenResponse = [kind |-> "json", data |-> EmptyMap]
        /\ call[t].pc = "returned"
        /\ call[t].err = Error("FetchAccessTokenFailed",
                            <<Error("AuthorizationServerResponseFieldNotFound", <<"id_token">>)>>)

-----------------------------------------------------------------------------
\* the token exchange of the call has met one of its failures: no client, no
\* answer, an answer that is no JSON object, a body with an error key, a body
\* that lacks a required field
ExchangeFailure(c) ==
    \/ c.tokenResponse.kind \in {"nobrowser", "transport", "notjson"}
    \/ /\ Decoded(c)
       /\ \/ Has(c.tokenResponse.data, "error")
          \/ \E k \in config.RequiredTokenFields : ~Has(c.tokenResponse.data, k)

\* the number of requests the call has sent to the token endpoint
TokenRequests(c) == Cardinality({i \in 1..Len(c.trace) : c.trace[i] = "token"})

\* C14: a failure of the token exchange is fatal to the callback: the call
\* has sent at most one request to the token endpoint, it returns
\* FetchAccessTokenFailed with response code 400, and nothing of the later
\* phases has happened: no validation of the id_token, no fetch of claims,
\* user info or groups, no identity cookie, no payload.
C14_ExchangeFailureIsFatal ==
    \A t \in Tasks :
        LET c == call[t] IN
        /\ TokenRequests(c) <= 1
        /\ ExchangeFailure(c)
           => /\ c.pc = "returned"
              /\ c.err.kind = "FetchAccessTokenFailed"
              /\ c.Response.Code = 400
              /\ c.Response.Payload = NoPayload
              /\ ~c.Response.IdentityTokenCookie.Enabled
              /\ Events(c) \cap {"validate", "claims", "userinfo", "groups"} = {}

\* C15: the request to the token endpoint is shaped by the driver: for
\* facebook a GET whose query holds exactly client_id, client_secret, code
\* and redirect_uri; for every other driver a POST whose form holds
\* client_id, client_secret, state, code and redirect_uri, and
\* grant_type=authorization_code iff b.disablePassGrantType is not set.  The
\* header Accept: application/json is set iff b.enableAcceptHeader is set.
C15_TokenRequestShape ==
    \A t \in Tasks :
        LET c == call[t]
            q == c.tokenRequest
            p == c.params
            set == {"client_id", "client_secret", "code", "redirect_uri"}
        IN  q # NoRequest
            => /\ IF config.Driver = "facebook"
                  THEN /\ q.method = "GET"
                       /\ DOMAIN q.query = set
                       /\ q.form = EmptyMap
                       /\ q.query["client_id"] = ClientID
                       /\ q.query["client_secret"] = ClientSecret
                       /\ q.query["code"] = p["code"]
                  ELSE /\ q.method = "POST"
                       /\ q.query = EmptyMap
                       /\ DOMAIN q.form =
                            set \cup {"state"}
                            \cup (IF config.DisablePassGrantType
                                  THEN {} ELSE {"grant_type"})
                       /\ q.form["client_id"] = ClientID
                       /\ q.form["client_secret"] = ClientSecret
                       /\ q.form["code"] = p["code"]
                       /\ q.form["state"] = p["state"]
                       /\ Has(q.form, "grant_type")
                            => q.form["grant_type"] = "authorization_code"
               /\ Has(q.header, "Accept") <=> config.EnableAcceptHeader
               /\ Has(q.header, "Accept") => q.header["Accept"] = "application/json"

\* C15 witness: a call of driver github with b.disablePassGrantType and
\* b.enableAcceptHeader set has sent its request to the token endpoint
C15_Witness ==
    \E t \in Tasks :
        /\ config.Driver = "github"
        /\ config.DisablePassGrantType
        /\ config.EnableAcceptHeader
        /\ call[t].tokenRequest.method = "POST"
        /\ "token" \in Events(call[t])

-----------------------------------------------------------------------------
\* how often the call has run the step e
Count(c, e) == Cardinality({i \in 1..Len(c.trace) : c.trace[i] = e})

\* the call has gone past the switch of line 192
PastClaims(c) ==
    /\ OnCodePath(c)
    /\ ExchangeSucceeded(c)
    /\ c.pc # "claims"

\* C16: after a successful token exchange on the code path exactly one of the
\* two sources of claims runs: for github, gitlab, facebook, discord and
\* patreon b.fetchClaims, whose failure gives FetchClaimsFailed, and the
\* verifier does not run; for every other driver the verifier, with the state
\* of the callback, whose failure gives ValidateAccessTokenFailed.  A call on
\* the code path does not answer 200 unless the step chosen has succeeded.
C16_OneClaimSource ==
    \A t \in Tasks :
        LET c == call[t]
            fetches == config.Driver \in
                         {"github", "gitlab", "facebook", "discord", "patreon"}
            ran == IF fetches THEN "claims" ELSE "validate"
            other == IF fetches THEN "validate" ELSE "claims"
            failure == IF fetches THEN "FetchClaimsFailed"
                       ELSE "ValidateAccessTokenFailed"
            otherFailure == IF fetches THEN "ValidateAccessTokenFailed"
                            ELSE "FetchClaimsFailed"
        IN  OnCodePath(c)
            => /\ Count(c, other) = 0
               /\ c.err.kind # otherFailure
               /\ Count(c, ran) = (IF PastClaims(c) THEN 1 ELSE 0)
               /\ fetches => c.verifierState = NoState
               /\ (~fetches /\ PastClaims(c))
                    => c.verifierState = reqParamsState(c.params)
               /\ c.err.kind = failure
                    => /\ PastClaims(c)
                       /\ c.trace[Len(c.trace)] = ran
                       /\ c.Response.Code = 400
               /\ c.Response.Code = 200
                    => /\ PastClaims(c)
                       /\ c.err = Nil
                       /\ (IF fetches THEN "claims" ELSE "id_token")
                            \in c.Response.Payload

\* C16 witness: a callback of driver patreon has answered 200 with the claims
\* b.fetchClaims gave it
C16_Witness ==
    \E t \in Tasks :
        /\ config.Driver = "patreon"
        /\ OnCodePath(call[t])
        /\ Succeeded(call[t])
        /\ "claims" \in call[t].Response.Payload

-----------------------------------------------------------------------------
\* the call is over: it has returned or it has panicked
Over(c) == c.pc \in {"returned", "panicked"}

\* C17: a failure of b.fetchUserInfo or of b.fetchUserGroups after the claims
\* were obtained is not fatal: the call still returns nil with response code
\* 200 and, as payload, the claims obtained so far, to which the failed fetch
\* has added nothing.
C17_FetchFailureNotFatal ==
    \A t \in Tasks :
        LET c == call[t] IN
        (c.logged # {} /\ Over(c))
        => /\ c.pc = "returned"
           /\ c.err = Nil
           /\ c.Response.Code = 200
           /\ c.Response.Payload # NoPayload
           /\ c.Response.Payload = c.m
           /\ "failed fetching user info" \in c.logged
                => "userinfo" \notin c.Response.Payload
           /\ "failed fetching user groups" \in c.logged
                => "groups" \notin c.Response.Payload

-----------------------------------------------------------------------------
\* C18: Authenticate does not mutate the configuration of the provider: no
\* step changes b.config or the storage under b.config.Scopes, and the scope
\* of each redirect is the configured scopes followed by the
\* additional_scopes of its own request.
C18_ConfigNeverMutated ==
    [][/\ config' = config
       /\ scopesArray' = scopesArray
       /\ \A t \in Tasks :
            LET url == call'[t].Response.RedirectURL IN
            (Returns(t) /\ Has(url, "scope"))
            => url["scope"] = ExpectedScope(call'[t].params)]_vars

-----------------------------------------------------------------------------
\* the parameters of a request to the token endpoint, in its form or query
TokenParams(q) == IF q.method = "GET" THEN q.query ELSE q.form

\* C19: within one flow the redirect_uri sent to the token endpoint in the
\* callback with the code is the redirect_uri of the redirect that started
\* the flow, whether or not b.config.JsCallbackEnabled is set.
C19_SameRedirectURI ==
    \A t \in Tasks, u \in Tasks :
        LET url == call[t].Response.RedirectURL
            q == call[u].tokenRequest
        IN  (/\ HasReturned(t)
             /\ url # NoURL
             /\ q # NoRequest
             /\ reqParamsState(call[u].params) = url["state"])
            => TokenParams(q)["redirect_uri"] = url["redirect_uri"]

-----------------------------------------------------------------------------
\* the nonce of a flow state registered without one: the empty string
NonceOmitted == <<"nonce", 0>>

\* C20: the flow state registered by a redirect holds a nonce iff the nonce
\* is enabled: with b.disableNonce set the redirect URL has no nonce and the
\* entry added for the minted state has none either; otherwise both hold the
\* same nonce.
C20_NonceIffEnabled ==
    [][\A t \in Tasks :
         LET url == call'[t].Response.RedirectURL
             s == call'[t].state
         IN  (Returns(t) /\ url # NoURL)
             => /\ s \in DOMAIN store'
                /\ Has(url, "nonce") <=> ~config.DisableNonce
                /\ IF config.DisableNonce
                   THEN store'[s].nonce = NonceOmitted
                   ELSE /\ store'[s].nonce = url["nonce"]
                        /\ store'[s].nonce # NonceOmitted]_vars

====
